---- MODULE Spec2Model ----
(***************************************************************************)
(* Model of package blobs (consensus-types/blobs): the one-time            *)
(* construction of the rootsOfUnity table, the sidecar verifiers           *)
(* ValidateBlobsSidecar and VerifyBlobsSidecar, the sidecar presence       *)
(* predicates, and the field helpers they are built from.                  *)
(*                                                                         *)
(* The arithmetic is the source's, over a scaled field: the BLS modulus is *)
(* replaced by the prime 17, a blob holds 4 field elements, a field        *)
(* element is encoded in 2 bytes and a byte has ByteBase values, so that   *)
(* ByteBase^(BytesPerFieldElement-1) <= blsModulus <                       *)
(* ByteBase^BytesPerFieldElement as for the 32-byte encoding of the        *)
(* 255-bit modulus.  The 64-bit word of math/bits keeps its width.         *)
(***************************************************************************)
EXTENDS Integers, Sequences, FiniteSets, TLC

VARIABLES initPc, initI, current, rootsOfUnity, active, last, call

vars == <<initPc, initI, current, rootsOfUnity, active, last, call>>

(* ---------------------------------------------------------------- sizes *)

\* bls.ModulusStr, scaled
blsModulus == 17
\* params.FieldElementsPerBlob, scaled
FieldElementsPerBlob == 4
\* PRIMITIVE_ROOT_OF_UNITY
PrimitiveRoot == 7
\* the size of an encoded field element (32 in the source), scaled
BytesPerFieldElement == 2
\* the width of the words bits.Reverse64 and bits.Len64 work on
WordBits == 64

\* number of values of one byte
ByteBase == 8
\* most blobs (and commitments) of a sidecar
MaxBlobs == 2
\* most verification calls in flight at once
MaxConcurrent == 2
\* largest n handed to computePowers
MaxPowers == 3
\* longest sequence handed to bitReversalPermutation is 2^MaxLogLen
MaxLogLen == 3

\* a nil *bls.Fr
NilFr == -1

Fr == 0 .. (blsModulus - 1)
Byte == 0 .. (ByteBase - 1)

(* -------------------------------------------------------------- helpers *)

RECURSIVE Pow(_, _)
\* b^e, as repeated multiplication
Pow(b, e) == IF e = 0 THEN 1 ELSE b * Pow(b, e - 1)

RECURSIVE ExpMod(_, _, _)
\* big.Int.Exp(x, y, m): x^y mod m
ExpMod(x, y, m) == IF y = 0 THEN 1 % m ELSE (x * ExpMod(x, y - 1, m)) % m

RECURSIVE BigString(_)
\* big.Int.String(): the decimal digits of b, most significant first
BigString(b) == IF b < 10 THEN <<b>> ELSE Append(BigString(b \div 10), b % 10)

RECURSIVE ParseDecimal(_)
\* the number a sequence of decimal digits denotes
ParseDecimal(s) ==
    IF Len(s) = 0 THEN 0
    ELSE 10 * ParseDecimal(SubSeq(s, 1, Len(s) - 1)) + s[Len(s)]

\* bls.SetFr(dst, v) on a non-nil dst: the field element the decimal string v denotes
SetFr(v) == ParseDecimal(v) % blsModulus

\* bigToFr(fr, b): conversion through the decimal string
bigToFr(b) == SetFr(BigString(b))

\* bls.MulModFr
MulModFr(a, b) == (a * b) % blsModulus

RECURSIVE AndBits(_, _)
\* a & b on unsigned words
AndBits(a, b) ==
    IF a = 0 \/ b = 0 THEN 0
    ELSE (a % 2) * (b % 2) + 2 * AndBits(a \div 2, b \div 2)

\* isPowerOfTwo(value): value > 0 && value&(value-1) == 0
isPowerOfTwo(value) == value > 0 /\ AndBits(value, value - 1) = 0

RECURSIVE Len64(_)
\* bits.Len64(x): the number of bits needed to write x
Len64(x) == IF x = 0 THEN 0 ELSE 1 + Len64(x \div 2)

\* bit k (0 = least significant) of the 64-bit word holding the small number i
BitOf(i, k) == IF k >= 31 THEN 0 ELSE (i \div Pow(2, k)) % 2

RECURSIVE SumBits(_, _, _)
\* sum over k in 0..top of bit (k+s) of Reverse64(i), weighted 2^k
SumBits(i, s, top) ==
    IF top < 0 THEN 0
    ELSE BitOf(i, (WordBits - 1) - (top + s)) * Pow(2, top) + SumBits(i, s, top - 1)

\* bits.Reverse64(uint64(i)) >> s
Reverse64Shr(i, s) == IF s >= WordBits THEN 0 ELSE SumBits(i, s, (WordBits - 1) - s)

(* ------------------------------------------------ bitReversalPermutation *)

\* index used for out[i]
ReversedIndexWrongShift(i) == Reverse64Shr(i, WordBits - Len64(FieldElementsPerBlob))

ReversedIndex(i) == Reverse64Shr(i, (WordBits + 1) - Len64(FieldElementsPerBlob))

RECURSIVE bitReversalLoop(_, _, _)
\* the loop "for i := range l": out after the iterations i, i+1, ..., or a panic
bitReversalLoop(l, out, i) ==
    IF i >= Len(l) THEN [panic |-> FALSE, out |-> out]
    ELSE LET j == ReversedIndex(i) IN
         IF j >= Len(l) \/ i >= Len(out)
         THEN [panic |-> TRUE, out |-> out]
         ELSE bitReversalLoop(l, [out EXCEPT ![i + 1] = l[j + 1]], i + 1)

\* bitReversalPermutation(l): a fresh slice of FieldElementsPerBlob elements
bitReversalPermutation(l) ==
    IF ~isPowerOfTwo(FieldElementsPerBlob)
    THEN [panic |-> TRUE, out |-> <<>>]
    ELSE bitReversalLoop(l, [k \in 1 .. FieldElementsPerBlob |-> 0], 0)

(* --------------------------------------------------------- computePowers *)

RECURSIVE computePowersLoopAliased(_, _)
computePowersLoopAliased(st, i) ==
    IF i >= Len(st.powers) THEN st
    ELSE IF st.x = NilFr THEN [st EXCEPT !.panic = TRUE]
    ELSE computePowersLoopAliased(
             [st EXCEPT !.powers[i + 1] = st.ONE,
                        !.ONE = MulModFr(st.ONE, st.x),
                        !.currentPower = MulModFr(st.ONE, st.x)], i + 1)

RECURSIVE computePowersLoop(_, _)
\* "for i := range powers": st holds currentPower, powers, and the values of
\* *x and of bls.ONE; a nil x panics in bls.MulModFr
computePowersLoop(st, i) ==
    IF i >= Len(st.powers) THEN st
    ELSE IF st.x = NilFr THEN [st EXCEPT !.panic = TRUE]
    ELSE computePowersLoop(
             [st EXCEPT !.powers[i + 1] = st.currentPower,
                        !.currentPower = MulModFr(st.currentPower, st.x)], i + 1)

\* computePowers(x, n)
computePowers(x, n) ==
    computePowersLoop([currentPower |-> 1, ONE |-> 1, x |-> x, panic |-> FALSE,
                       powers |-> [k \in 1 .. n |-> 0]], 0)

(* ------------------------------------------------------ bytes and hashes *)

RECURSIVE LEValue(_)
\* the integer a byte sequence denotes, least significant byte first
LEValue(bs) == IF Len(bs) = 0 THEN 0 ELSE bs[1] + ByteBase * LEValue(Tail(bs))

RECURSIVE BEValue(_)
\* big.Int.SetBytes: the integer a byte sequence denotes, most significant byte first
BEValue(bs) ==
    IF Len(bs) = 0 THEN 0
    ELSE BEValue(SubSeq(bs, 1, Len(bs) - 1)) * ByteBase + bs[Len(bs)]

\* bytesutil.ReverseByteOrder
ReverseByteOrder(bs) == [k \in 1 .. Len(bs) |-> bs[Len(bs) + 1 - k]]

\* bytesutil.ToBytes32: the first bytes of x, zero-padded to the fixed width
ToBytes32(x) ==
    [k \in 1 .. BytesPerFieldElement |-> IF k <= Len(x) THEN x[k] ELSE 0]

\* bls.FrFrom32: little-endian decoding, refused when the value is not below the modulus
FrFrom32(b32) ==
    LET v == LEValue(b32) IN [ok |-> v < blsModulus, fr |-> IF v < blsModulus THEN v ELSE 0]

\* bls.FrTo32: little-endian encoding on the fixed width
FrTo32(fr) == [k \in 1 .. BytesPerFieldElement |-> (fr \div Pow(ByteBase, k - 1)) % ByteBase]

RECURSIVE Mix(_, _)
\* the running state of the digest over the bytes m
Mix(m, h) ==
    IF Len(m) = 0 THEN h
    ELSE Mix(Tail(m), (h * 5 + m[1] + 3) % Pow(ByteBase, BytesPerFieldElement))

\* hash.Hash(m): a digest as wide as a field element, most significant byte first
Hash(m) == ReverseByteOrder(FrTo32(Mix(m, 1)))

RECURSIVE Concat(_)
\* the concatenation of a sequence of byte sequences
Concat(ss) == IF Len(ss) = 0 THEN <<>> ELSE ss[1] \o Concat(Tail(ss))

\* x.MarshalSSZ() of a container whose encoding is x.bytes; x.fails: the encoder refuses it
MarshalSSZ(x) == [err |-> x.fails, bytes |-> IF x.fails THEN <<>> ELSE x.bytes]

(* -------------------------------------------------------- hashToBlsField *)

\* bls.SetFr(dst, v) through the pointer dst: a nil dst is dereferenced by the
\* library (a panic) unless the build's SetFr returns without writing
SetFrAt(dst, v, nilWritePanics) ==
    IF dst = NilFr THEN [panic |-> nilWritePanics, ptr |-> NilFr]
    ELSE [panic |-> FALSE, ptr |-> SetFr(v)]

\* "var f *bls.Fr": the zero value of a pointer
FrPointer == NilFr

\* hashToBlsField(x): [panic, f, err, touched]
hashToBlsField(x, nilWritePanics) ==
    LET m == MarshalSSZ(x) IN
    IF m.err
    THEN [panic |-> FALSE, f |-> NilFr, err |-> "ErrMarshalSSZ", touched |-> <<"MarshalSSZ">>]
    ELSE LET h == Hash(m.bytes)
             b == BEValue(ReverseByteOrder(h)) % blsModulus
             w == SetFrAt(FrPointer, BigString(b), nilWritePanics)
         IN  [panic |-> w.panic, f |-> w.ptr, err |-> "",
              touched |-> <<"MarshalSSZ", "Hash">>]

(* ----------------------------------------------------------- polyLinComb *)

\* byte k (from 0) of the array under blob.Data; past len(Data) the array holds
\* whatever the allocation left there
ByteAt(blob, k) == IF k < Len(blob.Data) THEN blob.Data[k + 1] ELSE 0

\* blob[lo:hi]
SliceOf(blob, lo, hi) == [k \in 1 .. (hi - lo) |-> ByteAt(blob, lo + k - 1)]

\* the last value of j in "for j := 0; j <= params.FieldElementsPerBlob; j++"
LastChunkIndex == FieldElementsPerBlob

RECURSIVE decodeBlobLoop(_, _, _)
\* the inner loop of polyLinComb over one blob: [panic, err, r, lastJ]
decodeBlobLoop(blob, r, j) ==
    IF j > LastChunkIndex THEN [panic |-> FALSE, err |-> "", r |-> r, lastJ |-> j - 1]
    ELSE LET lo == j * BytesPerFieldElement
             hi == j * BytesPerFieldElement + (BytesPerFieldElement - 1)
         IN
         IF hi > blob.cap    \* slice bounds out of range
         THEN [panic |-> TRUE, err |-> "", r |-> r, lastJ |-> j]
         ELSE IF j >= Len(r) \* &r[j]: index out of range
         THEN [panic |-> TRUE, err |-> "", r |-> r, lastJ |-> j]
         ELSE LET d == FrFrom32(ToBytes32(SliceOf(blob, lo, hi))) IN
              IF ~d.ok
              THEN [panic |-> FALSE, err |-> "invalid value in blob", r |-> r, lastJ |-> j]
              ELSE decodeBlobLoop(blob, [r EXCEPT ![j + 1] = d.fr], j + 1)

RECURSIVE SumProducts(_, _, _, _)
\* sum over k in 1..m of scalars[k] * polys[k][i], reduced
SumProducts(polys, scalars, i, m) ==
    IF m = 0 THEN 0
    ELSE (SumProducts(polys, scalars, i, m - 1) + scalars[m] * polys[m][i]) % blsModulus

\* bls.PolyLinComb(vectors, scalars)
PolyLinCombFr(vectors, scalars) ==
    IF Len(vectors) = 0 THEN [panic |-> TRUE, out |-> <<>>]
    ELSE [panic |-> FALSE,
          out |-> [i \in 1 .. Len(vectors[1]) |->
                       SumProducts(vectors, scalars, i, Len(vectors))]]

RECURSIVE polyLinCombLoop(_, _, _, _)
\* the outer loop "for i := range blobs", then bls.PolyLinComb
polyLinCombLoop(blobs, scalars, out, i) ==
    IF i >= Len(blobs)
    THEN LET c == PolyLinCombFr(out, scalars) IN
         [panic |-> c.panic, err |-> "", out |-> c.out, lastJ |-> LastChunkIndex]
    ELSE LET d == decodeBlobLoop(blobs[i + 1], [k \in 1 .. FieldElementsPerBlob |-> 0], 0) IN
         IF d.panic \/ d.err # ""
         THEN [panic |-> d.panic, err |-> d.err, out |-> <<>>, lastJ |-> d.lastJ]
         ELSE polyLinCombLoop(blobs, scalars, Append(out, d.r), i + 1)

\* polyLinComb(blobs, scalars): [panic, err, out, lastJ]
polyLinComb(blobs, scalars) == polyLinCombLoop(blobs, scalars, <<>>, 0)

(* ------------------------------------------------------------- g1LinComb *)

\* bls.FromCompressedG1: the group is modelled by the integers modulo
\* blsModulus under addition; an encoding outside it does not decompress
FromCompressedG1(p) == [err |-> ~(p \in Fr), g1 |-> IF p \in Fr THEN p ELSE 0]

RECURSIVE LinCombG1(_, _, _)
\* bls.LinCombG1: sum of scalars[k] * g1s[k]
LinCombG1(g1s, scalars, m) ==
    IF m = 0 THEN 0
    ELSE (LinCombG1(g1s, scalars, m - 1) + scalars[m] * g1s[m]) % blsModulus

\* g1LinComb(points, scalars): [err, out, touched]
g1LinComb(points, scalars) ==
    IF Len(points) # Len(scalars)
    THEN [err |-> "points and scalars have to be the same length", out |-> 0,
          touched |-> <<>>]
    ELSE IF \E k \in 1 .. Len(points) : FromCompressedG1(points[k]).err
    THEN [err |-> "ErrFromCompressedG1", out |-> 0, touched |-> <<"FromCompressedG1">>]
    ELSE [err |-> "",
          out |-> LinCombG1([k \in 1 .. Len(points) |-> FromCompressedG1(points[k]).g1],
                            scalars, Len(points)),
          touched |-> <<"FromCompressedG1", "LinCombG1">>]

(* -------------------------------------------------- ValidateBlobsSidecar *)

\* the modular inverse bls.EvaluatePolyInEvaluationForm divides with
InvModFr(a) == ExpMod(a % blsModulus, blsModulus - 2, blsModulus)

RECURSIVE BarycentricSum(_, _, _, _)
\* sum over i in 1..m of poly[i] * roots[i] / (x - roots[i])
BarycentricSum(poly, x, roots, m) ==
    IF m = 0 THEN 0
    ELSE (BarycentricSum(poly, x, roots, m - 1)
          + poly[m] * roots[m] * InvModFr(x - roots[m] + blsModulus)) % blsModulus

\* bls.EvaluatePolyInEvaluationForm(&y, poly, x, rootsOfUnity, 0): [panic, y]
EvaluatePolyInEvaluationForm(poly, x, roots) ==
    IF x = NilFr THEN [panic |-> TRUE, y |-> 0]
    ELSE IF \E i \in 1 .. Len(roots) : roots[i] = x
    THEN [panic |-> FALSE, y |-> poly[CHOOSE i \in 1 .. Len(roots) : roots[i] = x]]
    ELSE [panic |-> FALSE,
          y |-> ((ExpMod(x, Len(roots), blsModulus) + blsModulus - 1)
                 * InvModFr(Len(roots))
                 * BarycentricSum(poly, x, roots, Len(roots))) % blsModulus]

\* the gates of ValidateBlobsSidecar with the length compared first
ValidateGatesLengthFirst(slot, root, commitments, sidecar) ==
    IF Len(commitments) # Len(sidecar.Blobs) THEN "ErrInvalidBlobsLength"
    ELSE IF slot # sidecar.BeaconBlockSlot THEN "ErrInvalidBlobSlot"
    ELSE IF root # ToBytes32(sidecar.BeaconBlockRoot) THEN "ErrInvalidBlobBeaconBlockRoot"
    ELSE ""

\* the three leading checks of ValidateBlobsSidecar: the error returned, or ""
ValidateGates(slot, root, commitments, sidecar) ==
    IF slot # sidecar.BeaconBlockSlot THEN "ErrInvalidBlobSlot"
    ELSE IF root # ToBytes32(sidecar.BeaconBlockRoot) THEN "ErrInvalidBlobBeaconBlockRoot"
    ELSE IF Len(commitments) # Len(sidecar.Blobs) THEN "ErrInvalidBlobsLength"
    ELSE ""

\* the container eth.BlobsAndCommitments{Blobs, Commitments}
BlobsAndCommitments(blobs, commitments, fails) ==
    [bytes |-> Concat([k \in 1 .. Len(blobs) |-> blobs[k].Data]) \o commitments,
     fails |-> fails]

\* the container eth.PolynomialAndCommitment{Polynomial, Commitment}
PolynomialAndCommitment(poly, commitment, fails) ==
    [bytes |-> Concat([k \in 1 .. FieldElementsPerBlob |-> FrTo32(poly[k])])
               \o <<commitment>>,
     fails |-> fails]

\* kzg.VerifyKZGProof: the answer of the pairing check, an input of the model
VerifyKZGProof(answer) ==
    [err |-> IF answer = "error" THEN "ErrVerifyKZGProof" ELSE "", b |-> answer = "true"]

\* ValidateBlobsSidecar from the derivation of x on: lines 112-137
ValidateTail(aggregatedPoly, aggregatedPolyCommitment, env, table, touched) ==
    LET hx == hashToBlsField(PolynomialAndCommitment(aggregatedPoly, aggregatedPolyCommitment,
                                                     env.marshalFails = "xData"),
                             env.nilWritePanics)
        t1 == touched \o hx.touched
    IN
    IF hx.panic THEN [result |-> "panic", touched |-> t1]
    ELSE IF hx.err # "" THEN [result |-> hx.err, touched |-> t1]
    ELSE LET ev == EvaluatePolyInEvaluationForm(aggregatedPoly, hx.f, table)
             t2 == Append(t1, "EvaluatePolyInEvaluationForm")
         IN
         IF ev.panic THEN [result |-> "panic", touched |-> t2]
         ELSE LET v  == VerifyKZGProof(env.kzgAnswer)
                  t3 == Append(t2, "VerifyKZGProof")
              IN
              IF v.err # "" THEN [result |-> v.err, touched |-> t3]
              ELSE IF ~v.b THEN [result |-> "ErrInvalidAggregateProof", touched |-> t3]
              ELSE [result |-> "nil", touched |-> t3]

\* ValidateBlobsSidecar from computePowers on: lines 100-137
ValidateAggregate(commitments, sidecar, r, env, table, touched) ==
    LET cp == computePowers(r, Len(sidecar.Blobs))
        t1 == Append(touched, "MulModFr")
    IN
    IF cp.panic THEN [result |-> "panic", touched |-> t1]
    ELSE LET g  == g1LinComb(commitments, cp.powers)
             t2 == t1 \o g.touched
         IN
         IF g.err # "" THEN [result |-> g.err, touched |-> t2]
         ELSE LET pl == polyLinComb(sidecar.Blobs, cp.powers)
                  t3 == Append(t2, "FrFrom32")
              IN
              IF pl.panic THEN [result |-> "panic", touched |-> t3]
              ELSE IF pl.err # "" THEN [result |-> pl.err, touched |-> t3]
              ELSE ValidateTail(pl.out, g.out, env, table, t3)

\* ValidateBlobsSidecar(slot, root, commitments, sidecar): [result, touched], where
\* touched lists the serialization, hashing and library calls made, in order
ValidateBlobsSidecar(slot, root, commitments, sidecar, env, table) ==
    LET gate == ValidateGates(slot, root, commitments, sidecar) IN
    IF gate # "" THEN [result |-> gate, touched |-> <<>>]
    ELSE LET hr == hashToBlsField(BlobsAndCommitments(sidecar.Blobs, commitments,
                                                      env.marshalFails = "rData"),
                                  env.nilWritePanics)
         IN
         IF hr.panic THEN [result |-> "panic", touched |-> hr.touched]
         ELSE IF hr.err # "" THEN [result |-> hr.err, touched |-> hr.touched]
         ELSE IF Len(sidecar.Blobs) = 0
         THEN [result |-> "ErrEmptyBlobsInSidecar", touched |-> hr.touched]
         ELSE ValidateAggregate(commitments, sidecar, hr.f, env, table, hr.touched)

(* ---------------------------------------------------- VerifyBlobsSidecar *)

\* the inner loop of VerifyBlobsSidecar: each element of Blobs[i].Blob copied
\* into a field-element buffer of the fixed-size gethType.Blob
CopyBlob(chunks) ==
    IF Len(chunks) > FieldElementsPerBlob THEN [panic |-> TRUE, blob |-> <<>>]
    ELSE [panic |-> FALSE,
          blob |-> [k \in 1 .. FieldElementsPerBlob |->
                        IF k <= Len(chunks) THEN ToBytes32(chunks[k])
                        ELSE ToBytes32(<<>>)]]

RECURSIVE CommitSum(_, _)
\* sum over k in 1..m of blob[k] times the k-th element of the trusted setup
CommitSum(blob, m) ==
    IF m = 0 THEN 0
    ELSE (CommitSum(blob, m - 1) + LEValue(blob[m]) * ExpMod(3, m, blsModulus)) % blsModulus

\* gethType.Blob.ComputeCommitment(): (kzg, ok)
ComputeCommitment(blob) ==
    IF \E k \in 1 .. Len(blob) : ~FrFrom32(blob[k]).ok
    THEN [ok |-> FALSE, kzg |-> 0]
    ELSE [ok |-> TRUE, kzg |-> CommitSum(blob, Len(blob))]

\* the comparison "kzg != expectedKzg" of VerifyBlobsSidecar, skipping the last blob
KzgDiffersButLast(kzg, expectedKZGs, i) == i + 1 < Len(expectedKZGs) /\ kzg # expectedKZGs[i + 1]

\* the comparison "kzg != expectedKzg" at index i
KzgDiffers(kzg, expectedKZGs, i) == kzg # expectedKZGs[i + 1]

RECURSIVE VerifyLoop(_, _, _, _)
\* "for i, expectedKzg := range expectedKZGs"
VerifyLoop(expectedKZGs, blobsSidecar, i, touched) ==
    IF i >= Len(expectedKZGs) THEN [result |-> "nil", touched |-> touched]
    ELSE LET c == CopyBlob(blobsSidecar.Blobs[i + 1].Blob) IN
         IF c.panic THEN [result |-> "panic", touched |-> touched]
         ELSE LET k  == ComputeCommitment(c.blob)
                  t1 == Append(touched, "ComputeCommitment")
              IN
              IF ~k.ok THEN [result |-> "ErrCouldNotComputeCommitment", touched |-> t1]
              ELSE IF KzgDiffers(k.kzg, expectedKZGs, i)
              THEN [result |-> "ErrMissmatchKzgs", touched |-> t1]
              ELSE VerifyLoop(expectedKZGs, blobsSidecar, i + 1, t1)

\* the three leading checks of VerifyBlobsSidecar: the error returned, or ""
VerifyGates(slot, beaconBlockRoot, expectedKZGs, blobsSidecar) ==
    IF slot # blobsSidecar.BeaconBlockSlot THEN "ErrInvalidBlobSlot"
    ELSE IF beaconBlockRoot # ToBytes32(blobsSidecar.BeaconBlockRoot)
    THEN "ErrInvalidBlobBeaconBlockRoot"
    ELSE IF Len(expectedKZGs) # Len(blobsSidecar.Blobs) THEN "ErrInvalidBlobsLength"
    ELSE ""

\* VerifyBlobsSidecar(slot, beaconBlockRoot, expectedKZGs, blobsSidecar): [result, touched]
VerifyBlobsSidecar(slot, beaconBlockRoot, expectedKZGs, blobsSidecar) ==
    LET gate == VerifyGates(slot, beaconBlockRoot, expectedKZGs, blobsSidecar) IN
    IF gate # "" THEN [result |-> gate, touched |-> <<>>]
    ELSE VerifyLoop(expectedKZGs, blobsSidecar, 0, <<>>)

(* ------------------------------------------------ sidecar presence checks *)

\* blocks.IsPreEIP4844Version
IsPreEIP4844Version(v) == v \in {"phase0", "altair", "bellatrix"}

\* errors.Is(err, target): err is target or wraps it
ErrorsIs(err, target) == err = target \/ err = "wrapped: " \o target

\* BlockContainsKZGs ignoring the block's version
BlockContainsKZGsAnyVersion(b) ==
    IF b.blobKzgsErr # "" THEN [has |-> FALSE, err |-> b.blobKzgsErr, touched |-> <<"BlobKzgs">>]
    ELSE [has |-> b.nBlobKzgs # 0, err |-> "", touched |-> <<"BlobKzgs">>]

\* BlockContainsKZGs(b): [has, err, touched]
BlockContainsKZGs(b) ==
    IF IsPreEIP4844Version(b.version) THEN [has |-> FALSE, err |-> "", touched |-> <<>>]
    ELSE IF b.blobKzgsErr # ""
    THEN [has |-> FALSE, err |-> b.blobKzgsErr, touched |-> <<"BlobKzgs">>]
    ELSE [has |-> b.nBlobKzgs # 0, err |-> "", touched |-> <<"BlobKzgs">>]

\* BlockContainsSidecar(b): [has, err, touched]
BlockContainsSidecar(b) ==
    LET k == BlockContainsKZGs(b.block) IN
    IF k.err # "" THEN [has |-> FALSE, err |-> k.err, touched |-> k.touched]
    ELSE IF ~k.has THEN [has |-> FALSE, err |-> "", touched |-> k.touched]
    ELSE LET t == Append(k.touched, "SideCar") IN
         IF ErrorsIs(b.sideCarErr, "ErrNilSidecar")
         THEN [has |-> FALSE, err |-> "", touched |-> t]
         ELSE IF b.sideCarErr # "" THEN [has |-> FALSE, err |-> b.sideCarErr, touched |-> t]
         ELSE [has |-> TRUE, err |-> "", touched |-> t]

(* ---------------------------------------------------------------- inputs *)

\* all sequences over S of length at most n
SeqsUpTo(S, n) == UNION {[1 .. k -> S] : k \in 0 .. n}

Slots == {0, 1}

\* the block root the caller passes
CallerRoot == <<1, 2>>

\* sidecar.BeaconBlockRoot: the caller's root, the caller's root followed by a
\* further byte, a root one byte short, another root
SidecarRoots == {<<1, 2>>, <<1, 2, 3>>, <<1>>, <<2, 2>>}

\* blobs of FieldElementsPerBlob * BytesPerFieldElement bytes: all elements
\* canonical with a zero high byte; one element not below the modulus (and spare
\* capacity behind the data); all elements canonical, some with a non-zero high byte
BlobSamples ==
    {[Data |-> <<1, 0, 2, 0, 3, 0, 4, 0>>, cap |-> 8],
     [Data |-> <<1, 0, 2, 0, 7, 7, 4, 0>>, cap |-> 10],
     [Data |-> <<5, 1, 0, 0, 6, 0, 0, 1>>, cap |-> 8]}

\* compressed points: two that decompress and one that does not
CommitmentSamples == {3, 5, blsModulus}

\* the same blob as the per-element form of VerifyBlobsSidecar's sidecar type
ChunksOf(blob) ==
    [Blob |-> [j \in 1 .. (Len(blob.Data) \div BytesPerFieldElement) |->
                   SubSeq(blob.Data, (j - 1) * BytesPerFieldElement + 1,
                          j * BytesPerFieldElement)]]

ChunkedSamples == {ChunksOf(b) : b \in BlobSamples}

\* the commitments of the samples that have one, and one more value
ExpectedKzgSamples ==
    {ComputeCommitment(CopyBlob(c.Blob).blob).kzg : c \in ChunkedSamples} \cup {1}

Envs ==
    [marshalFails : {"none", "rData", "xData"}, nilWritePanics : BOOLEAN,
     kzgAnswer : {"true", "false", "error"}]

Blocks ==
    [version : {"bellatrix", "eip4844"}, blobKzgsErr : {"", "ErrBlobKzgs"},
     nBlobKzgs : 0 .. MaxBlobs]

SignedBlocks ==
    [block : Blocks,
     sideCarErr : {"", "ErrNilSidecar", "wrapped: ErrNilSidecar", "ErrSideCar"}]

NoCall == [op |-> "none", in |-> <<>>, result |-> "", value |-> FALSE, touched |-> <<>>]

NoFn == [fn |-> "none", in |-> <<>>, out |-> <<>>, done |-> FALSE]

(* ------------------------------------------------------------ func init() *)

\* rootOfUnity after "rootOfUnity.Exp(&rootOfUnity, &divisor, &blsModulus)"
RootOfUnity == ExpMod(PrimitiveRoot, (blsModulus - 1) \div FieldElementsPerBlob, blsModulus)

\* init up to the loop: the divisibility check, current := one, the table allocated
InitStart ==
    /\ initPc = "start"
    /\ IF (blsModulus - 1) % FieldElementsPerBlob # 0
       THEN initPc' = "panic" /\ UNCHANGED <<current, rootsOfUnity>>
       ELSE /\ initPc' = "loop"
            /\ current' = 1
            /\ rootsOfUnity' = [k \in 1 .. FieldElementsPerBlob |-> 0]
    /\ initI' = 0
    /\ UNCHANGED <<active, last, call>>

\* one iteration of "for i := 0; i < params.FieldElementsPerBlob; i++"
InitLoop ==
    /\ initPc = "loop"
    /\ initI < FieldElementsPerBlob
    /\ rootsOfUnity' = [rootsOfUnity EXCEPT ![initI + 1] = bigToFr(current)]
    /\ current' = (current * RootOfUnity) % blsModulus
    /\ initI' = initI + 1
    /\ UNCHANGED <<initPc, active, last, call>>

\* "rootsOfUnity = bitReversalPermutation(rootsOfUnity)", the last statement of init
InitPermute ==
    /\ initPc = "loop"
    /\ initI >= FieldElementsPerBlob
    /\ LET p == bitReversalPermutation(rootsOfUnity) IN
       IF p.panic THEN initPc' = "panic" /\ UNCHANGED rootsOfUnity
       ELSE initPc' = "done" /\ rootsOfUnity' = p.out
    /\ UNCHANGED <<initI, current, active, last, call>>

(* ------------------------------------------------------------------ calls *)

\* no barrier: a call may start whatever init has done so far
InitCompleteUnguarded == TRUE

\* package initialization has run: Go runs init before any call of the package
InitComplete == initPc = "done"

\* a caller enters one of the package's functions
BeginCall ==
    /\ InitComplete
    /\ active < MaxConcurrent
    /\ active' = active + 1
    /\ UNCHANGED <<initPc, initI, current, rootsOfUnity, last, call>>

\* a call of ValidateBlobsSidecar runs to its return
CallValidateBlobsSidecar ==
    /\ active > 0
    /\ last = NoCall
    /\ \E slot \in Slots, sroot \in SidecarRoots, env \in Envs,
          commitments \in SeqsUpTo(CommitmentSamples, MaxBlobs),
          blobs \in SeqsUpTo(BlobSamples, MaxBlobs) :
          LET sidecar == [BeaconBlockSlot |-> 0, BeaconBlockRoot |-> sroot, Blobs |-> blobs]
              r == ValidateBlobsSidecar(slot, CallerRoot, commitments, sidecar, env,
                                        rootsOfUnity)
          IN  last' = [op |-> "ValidateBlobsSidecar",
                       in |-> [slot |-> slot, root |-> CallerRoot,
                               commitments |-> commitments, sidecar |-> sidecar, env |-> env],
                       result |-> r.result, value |-> FALSE, touched |-> r.touched]
    /\ active' = active - 1
    /\ UNCHANGED <<initPc, initI, current, rootsOfUnity, call>>

\* a call of VerifyBlobsSidecar runs to its return
CallVerifyBlobsSidecar ==
    /\ active > 0
    /\ last = NoCall
    /\ \E slot \in Slots, sroot \in SidecarRoots,
          expectedKZGs \in SeqsUpTo(ExpectedKzgSamples, MaxBlobs),
          blobs \in SeqsUpTo(ChunkedSamples, MaxBlobs) :
          LET sidecar == [BeaconBlockSlot |-> 0, BeaconBlockRoot |-> sroot, Blobs |-> blobs]
              r == VerifyBlobsSidecar(slot, CallerRoot, expectedKZGs, sidecar)
          IN  last' = [op |-> "VerifyBlobsSidecar",
                       in |-> [slot |-> slot, root |-> CallerRoot,
                               commitments |-> expectedKZGs, sidecar |-> sidecar],
                       result |-> r.result, value |-> FALSE, touched |-> r.touched]
    /\ active' = active - 1
    /\ UNCHANGED <<initPc, initI, current, rootsOfUnity, call>>

\* a call of BlockContainsSidecar runs to its return
CallBlockContainsSidecar ==
    /\ active > 0
    /\ last = NoCall
    /\ \E b \in SignedBlocks :
          LET r == BlockContainsSidecar(b) IN
          last' = [op |-> "BlockContainsSidecar", in |-> b,
                   result |-> IF r.err = "" THEN "nil" ELSE r.err,
                   value |-> r.has, touched |-> r.touched]
    /\ active' = active - 1
    /\ UNCHANGED <<initPc, initI, current, rootsOfUnity, call>>

\* a call of BlockContainsKZGs runs to its return
CallBlockContainsKZGs ==
    /\ active > 0
    /\ last = NoCall
    /\ \E b \in Blocks :
          LET r == BlockContainsKZGs(b) IN
          last' = [op |-> "BlockContainsKZGs", in |-> b,
                   result |-> IF r.err = "" THEN "nil" ELSE r.err,
                   value |-> r.has, touched |-> r.touched]
    /\ active' = active - 1
    /\ UNCHANGED <<initPc, initI, current, rootsOfUnity, call>>

\* the caller is done with the value the last call returned
DiscardResult ==
    /\ last # NoCall
    /\ last' = NoCall
    /\ UNCHANGED <<initPc, initI, current, rootsOfUnity, active, call>>

Init ==
    /\ initPc = "start"
    /\ initI = 0
    /\ current = 0
    /\ rootsOfUnity = <<>>
    /\ active = 0
    /\ last = NoCall
    /\ call = NoFn

Next ==
    \/ InitStart
    \/ InitLoop
    \/ InitPermute
    \/ BeginCall
    \/ CallValidateBlobsSidecar
    \/ CallVerifyBlobsSidecar
    \/ CallBlockContainsSidecar
    \/ CallBlockContainsKZGs
    \/ DiscardResult

Spec == Init /\ [][Next]_vars

(* ------------------------------------------- the helpers applied on their own *)

\* the table init leaves behind
TableAfterInit ==
    bitReversalPermutation(
        [k \in 1 .. FieldElementsPerBlob |-> ExpMod(RootOfUnity, k - 1, blsModulus)]).out

\* the sequences d, d+m, d+2m, ... (reduced) of length len
Ramps(len) == {[k \in 1 .. len |-> (d + m * (k - 1)) % blsModulus] : d \in Fr, m \in 1 .. 3}

FnInputs ==
    UNION {
        {[fn |-> "computePowers", in |-> [x |-> x, n |-> n], out |-> <<>>, done |-> FALSE] :
            x \in Fr, n \in 0 .. MaxPowers},
        {[fn |-> "bitReversalPermutation", in |-> [l |-> l], out |-> <<>>, done |-> FALSE] :
            l \in UNION {Ramps(Pow(2, k)) : k \in 0 .. MaxLogLen}},
        {[fn |-> "hashToBlsField",
          in |-> [container |-> [bytes |-> m, fails |-> f], nilWritePanics |-> p],
          out |-> <<>>, done |-> FALSE] :
            m \in SeqsUpTo(Byte, BytesPerFieldElement), f \in BOOLEAN, p \in BOOLEAN},
        {[fn |-> "polyLinComb",
          in |-> [blobs |-> bs, scalars |-> computePowers(r, Len(bs)).powers],
          out |-> <<>>, done |-> FALSE] :
            bs \in SeqsUpTo(BlobSamples, MaxBlobs) \ {<<>>}, r \in Fr}}

\* computePowers(x, n) is applied
ApplyComputePowers ==
    /\ call.fn = "computePowers" /\ ~call.done
    /\ call' = [call EXCEPT !.out = computePowers(call.in.x, call.in.n), !.done = TRUE]
    /\ UNCHANGED <<initPc, initI, current, rootsOfUnity, active, last>>

\* bitReversalPermutation(l) is applied
ApplyBitReversalPermutation ==
    /\ call.fn = "bitReversalPermutation" /\ ~call.done
    /\ call' = [call EXCEPT !.out = bitReversalPermutation(call.in.l), !.done = TRUE]
    /\ UNCHANGED <<initPc, initI, current, rootsOfUnity, active, last>>

\* hashToBlsField(x) is applied
ApplyHashToBlsField ==
    /\ call.fn = "hashToBlsField" /\ ~call.done
    /\ call' = [call EXCEPT !.out = hashToBlsField(call.in.container, call.in.nilWritePanics),
                            !.done = TRUE]
    /\ UNCHANGED <<initPc, initI, current, rootsOfUnity, active, last>>

\* polyLinComb(blobs, scalars) is applied
ApplyPolyLinComb ==
    /\ call.fn = "polyLinComb" /\ ~call.done
    /\ call' = [call EXCEPT !.out = polyLinComb(call.in.blobs, call.in.scalars),
                            !.done = TRUE]
    /\ UNCHANGED <<initPc, initI, current, rootsOfUnity, active, last>>

InitFn ==
    /\ initPc = "done"
    /\ initI = FieldElementsPerBlob
    /\ current = ExpMod(RootOfUnity, FieldElementsPerBlob, blsModulus)
    /\ rootsOfUnity = TableAfterInit
    /\ active = 0
    /\ last = NoCall
    /\ call \in FnInputs

NextFn ==
    \/ ApplyComputePowers
    \/ ApplyBitReversalPermutation
    \/ ApplyHashToBlsField
    \/ ApplyPolyLinComb

SpecFn == InitFn /\ [][NextFn]_vars

(* ---------------------------------------------------------------- claims *)

\* the last call returned was one of the two verifiers
VerifierReturned == last.op \in {"ValidateBlobsSidecar", "VerifyBlobsSidecar"}

SlotDiffers == last.in.slot # last.in.sidecar.BeaconBlockSlot

RootDiffers == last.in.root # ToBytes32(last.in.sidecar.BeaconBlockRoot)

LengthDiffers == Len(last.in.commitments) # Len(last.in.sidecar.Blobs)

GatesPass == ~SlotDiffers /\ ~RootDiffers /\ ~LengthDiffers

\* C1: in both verifiers the slot, root and length checks are made in that
\* order, the first that fails is the error returned, and the call has by then
\* made no serialization, hashing, decoding, commitment or pairing call
GatesDecideFirst ==
    VerifierReturned =>
        /\ SlotDiffers => last.result = "ErrInvalidBlobSlot" /\ last.touched = <<>>
        /\ (~SlotDiffers /\ RootDiffers) =>
               last.result = "ErrInvalidBlobBeaconBlockRoot" /\ last.touched = <<>>
        /\ (~SlotDiffers /\ ~RootDiffers /\ LengthDiffers) =>
               last.result = "ErrInvalidBlobsLength" /\ last.touched = <<>>

\* a call of ValidateBlobsSidecar failing the root and the length check returned
RootGateBeforeLengthGate ==
    /\ last.op = "ValidateBlobsSidecar"
    /\ ~SlotDiffers /\ RootDiffers /\ LengthDiffers
    /\ last.result = "ErrInvalidBlobBeaconBlockRoot"

\* C2: with matching slot and root and no commitments and no blobs,
\* ValidateBlobsSidecar returns ErrEmptyBlobsInSidecar without having derived r
EmptySidecarBeforeChallenge ==
    (/\ last.op = "ValidateBlobsSidecar"
     /\ GatesPass
     /\ Len(last.in.sidecar.Blobs) = 0
     /\ last.in.env.marshalFails = "none") =>
        last.result = "ErrEmptyBlobsInSidecar" /\ last.touched = <<>>

\* every element of the blob decodes to a field element
BlobCanonical(blob) ==
    \A j \in 0 .. (FieldElementsPerBlob - 1) :
        FrFrom32(SubSeq(blob.Data, j * BytesPerFieldElement + 1,
                        (j + 1) * BytesPerFieldElement)).ok

\* the input of the last call lets r, the aggregates, x and y be computed
AggregateComputable ==
    /\ last.op = "ValidateBlobsSidecar"
    /\ GatesPass
    /\ Len(last.in.sidecar.Blobs) > 0
    /\ last.in.env.marshalFails = "none"
    /\ \A k \in 1 .. Len(last.in.commitments) : last.in.commitments[k] \in Fr
    /\ \A k \in 1 .. Len(last.in.sidecar.Blobs) : BlobCanonical(last.in.sidecar.Blobs[k])

CommitmentAt(i) == ComputeCommitment(CopyBlob(last.in.sidecar.Blobs[i].Blob).blob)

\* blob i has a commitment and it is the expected one at i
BlobAgrees(i) == CommitmentAt(i).ok /\ CommitmentAt(i).kzg = last.in.commitments[i]

\* the first index whose blob does not agree
FirstDisagreement ==
    CHOOSE i \in 1 .. Len(last.in.commitments) :
        ~BlobAgrees(i) /\ \A h \in 1 .. (i - 1) : BlobAgrees(h)

\* C4: past the gates VerifyBlobsSidecar returns nil exactly when every blob's
\* commitment is computed and equals the expected one at the same index;
\* otherwise the first such index decides the error and no later blob is examined
PerBlobVerdict ==
    (last.op = "VerifyBlobsSidecar" /\ GatesPass) =>
        IF \A i \in 1 .. Len(last.in.commitments) : BlobAgrees(i)
        THEN last.result = "nil" /\ Len(last.touched) = Len(last.in.commitments)
        ELSE /\ last.result = IF CommitmentAt(FirstDisagreement).ok
                              THEN "ErrMissmatchKzgs"
                              ELSE "ErrCouldNotComputeCommitment"
             /\ Len(last.touched) = FirstDisagreement

\* a call of VerifyBlobsSidecar whose first blob agrees and whose second differs returned
SecondBlobMismatch ==
    /\ last.op = "VerifyBlobsSidecar"
    /\ GatesPass
    /\ Len(last.in.commitments) >= 2
    /\ BlobAgrees(1)
    /\ CommitmentAt(2).ok /\ ~BlobAgrees(2)
    /\ last.result = "ErrMissmatchKzgs"

\* the block of version v with these accessor results declares commitments
Declares(b) == ~IsPreEIP4844Version(b.version) /\ b.blobKzgsErr = "" /\ b.nBlobKzgs > 0

\* the commitment accessor is called and fails
AccessorFails(b) == ~IsPreEIP4844Version(b.version) /\ b.blobKzgsErr # ""

\* the sidecar fetch reports the sidecar absent
SidecarAbsent(sb) == sb.sideCarErr \in {"ErrNilSidecar", "wrapped: ErrNilSidecar"}

\* C5: BlockContainsSidecar is (true, nil) exactly when the block declares
\* commitments and the sidecar fetch succeeds; (false, nil) when it declares none
\* (no fetch made) or the sidecar is absent; any other failure is returned with false
SidecarPresence ==
    /\ last.op = "BlockContainsKZGs" =>
           /\ last.value = Declares(last.in)
           /\ last.result = IF AccessorFails(last.in) THEN last.in.blobKzgsErr ELSE "nil"
    /\ last.op = "BlockContainsSidecar" =>
           LET sb == last.in
               fetched == \E k \in 1 .. Len(last.touched) : last.touched[k] = "SideCar"
           IN
           /\ (last.value /\ last.result = "nil") <=> (Declares(sb.block) /\ sb.sideCarErr = "")
           /\ last.value => last.result = "nil"
           /\ AccessorFails(sb.block) =>
                  ~last.value /\ last.result = sb.block.blobKzgsErr /\ ~fetched
           /\ (~Declares(sb.block) /\ ~AccessorFails(sb.block)) =>
                  ~last.value /\ last.result = "nil" /\ ~fetched
           /\ (Declares(sb.block) /\ SidecarAbsent(sb)) =>
                  ~last.value /\ last.result = "nil" /\ fetched
           /\ (Declares(sb.block) /\ ~SidecarAbsent(sb) /\ sb.sideCarErr # "") =>
                  ~last.value /\ last.result = sb.sideCarErr /\ fetched

\* BlockContainsSidecar answered true
SidecarFound ==
    /\ last.op = "BlockContainsSidecar"
    /\ last.value /\ last.result = "nil"
    /\ Declares(last.in.block)

\* some call of the package has started
CallSeen == active > 0 \/ last # NoCall

\* C6: rootsOfUnity is written by init only, init is over before any call
\* starts, and from then on the table keeps its contents whatever calls run
TableReadOnly ==
    /\ [](CallSeen => (initPc = "done" /\ rootsOfUnity = TableAfterInit))
    /\ [][initPc = "done" => rootsOfUnity' = rootsOfUnity]_vars

\* verification calls overlap and one has returned, long after init
ConcurrentCallsAfterInit ==
    /\ active >= 2
    /\ last.op = "ValidateBlobsSidecar"
    /\ rootsOfUnity = TableAfterInit
    /\ Len(rootsOfUnity) = FieldElementsPerBlob

\* element i (from 0) of blob, decoded from its whole encoding
ElementOf(blob, i) ==
    LEValue(SubSeq(blob.Data, i * BytesPerFieldElement + 1, (i + 1) * BytesPerFieldElement))

RECURSIVE WeightedSum(_, _, _, _)
\* sum over k in 1..m of scalars[k] times element i of blobs[k], reduced
WeightedSum(blobs, scalars, i, m) ==
    IF m = 0 THEN 0
    ELSE (WeightedSum(blobs, scalars, i, m - 1) + scalars[m] * ElementOf(blobs[m], i))
             % blsModulus

\* C7: on blobs of FieldElementsPerBlob elements polyLinComb reads the elements
\* 0..FieldElementsPerBlob-1 only, returns the FieldElementsPerBlob weighted sums
\* when all of them are canonical, and an error when one is not
PolyLinCombInBounds ==
    (call.fn = "polyLinComb" /\ call.done) =>
        /\ ~call.out.panic
        /\ call.out.lastJ < FieldElementsPerBlob
        /\ IF \A k \in 1 .. Len(call.in.blobs) : BlobCanonical(call.in.blobs[k])
           THEN /\ call.out.err = ""
                /\ Len(call.out.out) = FieldElementsPerBlob
                /\ \A i \in 0 .. (FieldElementsPerBlob - 1) :
                       call.out.out[i + 1] =
                           WeightedSum(call.in.blobs, call.in.scalars, i, Len(call.in.blobs))
           ELSE call.out.err # ""

\* C8: hashToBlsField returns the serialization error and no element when
\* serialization fails, and otherwise no error and the element that is the
\* digest, read least significant byte first, reduced modulo the modulus
HashToFieldReturnsElement ==
    (call.fn = "hashToBlsField" /\ call.done) =>
        /\ ~call.out.panic
        /\ IF call.in.container.fails
           THEN call.out.err # "" /\ call.out.f = NilFr
           ELSE /\ call.out.err = ""
                /\ call.out.f # NilFr
                /\ call.out.f = LEValue(Hash(call.in.container.bytes)) % blsModulus

RECURSIVE ReverseBits(_, _)
\* the number whose k-bit writing is that of i backwards
ReverseBits(i, k) ==
    IF k = 0 THEN 0 ELSE (i % 2) * Pow(2, k - 1) + ReverseBits(i \div 2, k - 1)

\* what the claims say of bitReversalPermutation on the sequence l, out its result
IsBitReversalOf(l, res) ==
    /\ ~res.panic
    /\ Len(res.out) = Len(l)
    /\ \A i \in 0 .. (Len(l) - 1) :
           /\ ReverseBits(i, Len64(Len(l)) - 1) \in 0 .. (Len(l) - 1)
           /\ res.out[i + 1] = l[ReverseBits(i, Len64(Len(l)) - 1) + 1]
    /\ LET twice == bitReversalPermutation(res.out) IN ~twice.panic /\ twice.out = l

\* C9 as stated: for every sequence whose length is a power of two the result
\* is the sequence of the same length with out[i] = l[reverse_bits(i)] on
\* log2(len) bits, and applying the permutation twice gives l again
BitReversalAnyPowerOfTwo ==
    (call.fn = "bitReversalPermutation" /\ call.done) => IsBitReversalOf(call.in.l, call.out)

\* C9: the same for the sequences of exactly FieldElementsPerBlob elements
BitReversalOfBlobLength ==
    (/\ call.fn = "bitReversalPermutation" /\ call.done
     /\ Len(call.in.l) = FieldElementsPerBlob) => IsBitReversalOf(call.in.l, call.out)

\* bitReversalPermutation returned a reordering of FieldElementsPerBlob distinct elements
TablePermuted ==
    /\ call.fn = "bitReversalPermutation" /\ call.done
    /\ Len(call.in.l) = FieldElementsPerBlob
    /\ \A i, j \in 1 .. Len(call.in.l) : i # j => call.in.l[i] # call.in.l[j]
    /\ ~call.out.panic
    /\ call.out.out # call.in.l

\* C10: for n >= 1 computePowers(x, n) is the n powers x^0 = 1, x^1, ...,
\* x^(n-1), reduced, and x and bls.ONE are as they were
PowersOfX ==
    (call.fn = "computePowers" /\ call.done /\ call.in.n >= 1) =>
        /\ ~call.out.panic
        /\ Len(call.out.powers) = call.in.n
        /\ call.out.powers[1] = 1
        /\ \A k \in 0 .. (call.in.n - 1) :
               call.out.powers[k + 1] = Pow(call.in.x, k) % blsModulus
        /\ call.out.x = call.in.x
        /\ call.out.ONE = 1

\* computePowers(0, n) returned for some n >= 2
PowersOfZero ==
    /\ call.fn = "computePowers" /\ call.done
    /\ call.in.x = 0 /\ call.in.n >= 2
    /\ call.out.powers[1] = 1 /\ call.out.powers[2] = 0

====
